---- MODULE Spec2Model ----
(***************************************************************************)
(* gofwc: the tag extractor of src/main.go, and its earlier revision       *)
(* src/unnamed/part_000 (same Parse/parseDeclarations/createTag/main, a    *)
(* parseFunc that logs the receiver and has no receiver inference).        *)
(*                                                                         *)
(* Go strings are TLA+ strings (TLC evaluates \o, Len and SubSeq on them). *)
(* An ast node is a record tagged by k; an *ast.FieldList is a record      *)
(* [isNil, List], a field is [Names, Type].                                *)
(***************************************************************************)
EXTENDS Integers, Sequences, FiniteSets, TLC

VARIABLES
    variant,  \* which revision runs: "main.go" or "part_000"
    pc,       \* position of main: "flags", "range", "decls", "print", "done"
    args,     \* flags.Args(): the file names
    i,        \* index of the range loop of main over args
    disk,     \* what parser.ParseFile read for args[1..i] (source or syntax error)
    f,        \* the *ast.File being scanned by parseDeclarations
    j,        \* index of the range loop of parseDeclarations over f.Decls
    p,        \* the tagParser of the running Parse call: [tags, types]
    last,     \* parseFunc's locals of its last run: the belongsToReceiver result
    log,      \* lines part_000 wrote with log.Println
    tags,     \* main's aggregated tags
    out,      \* the tags main printed
    node,     \* TypeFormatter run: the ast node handed to getType
    fields,   \* TypeFormatter run: the field list handed to getTypes
    res       \* TypeFormatter run: what getType / getTypes returned

vars == <<variant, pc, args, i, disk, f, j, p, last, log, tags, out, node, fields, res>>
mainVars == <<variant, pc, args, i, disk, f, j, p, last, log, tags, out>>
fmtVars == <<node, fields, res>>

\* ---------------------------------------------------------------- bounds
MaxFiles == 2
MaxDecls == 3
MaxDepth == 3
MaxFields == 2
MaxNames == 2

\* ------------------------------------------------------------- constants
Method == "method"
Function == "function"

\* ------------------------------------------------------------- ast nodes
Ident(n) == [k |-> "Ident", Name |-> n]
StarExpr(x) == [k |-> "StarExpr", X |-> x]
SelectorExpr(x, sel) == [k |-> "SelectorExpr", X |-> x, Sel |-> sel]
\* Len is the *ast.BasicLit of a fixed-size array, or NoLen for a slice
BasicLit(v) == [k |-> "BasicLit", Value |-> v]
NoLen == [k |-> "nil"]
ArrayType(len, elt) == [k |-> "ArrayType", Len |-> len, Elt |-> elt]
FuncType(params, results) == [k |-> "FuncType", Params |-> params, Results |-> results]
MapType(key, value) == [k |-> "MapType", Key |-> key, Value |-> value]
ChanType(value) == [k |-> "ChanType", Value |-> value]
InterfaceType == [k |-> "InterfaceType"]

Field(names, type) == [Names |-> names, Type |-> type]
NilFieldList == [isNil |-> TRUE, List |-> <<>>]
FieldList(list) == [isNil |-> FALSE, List |-> list]

\* ------------------------------------------------------ library functions
RECURSIVE Join(_, _)
\* strings.Join
Join(elems, sep) ==
    IF Len(elems) = 0 THEN ""
    ELSE IF Len(elems) = 1 THEN elems[1]
    ELSE elems[1] \o sep \o Join(Tail(elems), sep)

RECURSIVE Repeat(_, _)
\* strings.Repeat
Repeat(s, count) == IF count = 0 THEN "" ELSE s \o Repeat(s, count - 1)

Digit(d) ==
    CASE d = 0 -> "0" [] d = 1 -> "1" [] d = 2 -> "2" [] d = 3 -> "3" [] d = 4 -> "4"
      [] d = 5 -> "5" [] d = 6 -> "6" [] d = 7 -> "7" [] d = 8 -> "8" [] d = 9 -> "9"

RECURSIVE Itoa(_)
\* strconv.Itoa, on the line numbers (all positive)
Itoa(n) == IF n < 10 THEN Digit(n) ELSE Itoa(n \div 10) \o Digit(n % 10)

RECURSIVE NumFieldsOf(_)
NumFieldsOf(list) ==
    IF Len(list) = 0 THEN 0
    ELSE (IF Len(list[1].Names) = 0 THEN 1 ELSE Len(list[1].Names)) + NumFieldsOf(Tail(list))

\* (*ast.FieldList).NumFields: the names, an anonymous field counting once; 0 for nil
NumFields(fl) == IF fl.isNil THEN 0 ELSE NumFieldsOf(fl.List)

\* ---------------------------------------------------------- TypeFormatter
RECURSIVE getType(_, _)
RECURSIVE getTypes(_, _)
RECURSIVE getTypesList(_, _)

\* faulty variant: the type is not repeated for the names of a group
getTypesFieldOnce(param, includeNames) ==
    IF Len(param.Names) > 0
    THEN LET t == getType(param.Type, TRUE)
         IN IF includeNames THEN Join(param.Names, ", ") \o " " \o t ELSE t
    ELSE getType(param.Type, TRUE)

\* one iteration of getTypes' loop: types[i] for the field param
getTypesField(param, includeNames) ==
    IF Len(param.Names) > 0
    THEN LET t == getType(param.Type, TRUE)
         IN IF includeNames
            THEN Join(param.Names, ", ") \o " " \o t
            ELSE IF Len(param.Names) > 1
                 THEN LET r == Repeat(t \o ", ", Len(param.Names))
                      IN SubSeq(r, 1, Len(r) - 2)
                 ELSE t
    ELSE getType(param.Type, TRUE)

getTypesList(list, includeNames) ==
    IF Len(list) = 0 THEN <<>>
    ELSE <<getTypesField(list[1], includeNames)>> \o getTypesList(Tail(list), includeNames)

getTypes(fl, includeNames) ==
    IF fl.isNil THEN "" ELSE Join(getTypesList(fl.List, includeNames), ", ")

\* star = TRUE keeps the pointer marker, star = FALSE drops it
getType(n, star) ==
    CASE n.k = "Ident" -> n.Name
      [] n.k = "StarExpr" ->
            IF star THEN "*" \o getType(n.X, star) ELSE getType(n.X, star)
      [] n.k = "SelectorExpr" -> getType(n.X, star) \o "." \o getType(n.Sel, star)
      [] n.k = "ArrayType" ->
            IF n.Len.k = "BasicLit"
            THEN "[" \o n.Len.Value \o "]" \o getType(n.Elt, star)
            ELSE "[]" \o getType(n.Elt, star)
      [] n.k = "FuncType" ->
            LET fparams == getTypes(n.Params, TRUE)
                fresult == getTypes(n.Results, FALSE)
            IN IF Len(fresult) > 0
               THEN "func(" \o fparams \o ") " \o fresult
               ELSE "func(" \o fparams \o ")"
      [] n.k = "MapType" ->
            "map[" \o getType(n.Key, TRUE) \o "]" \o getType(n.Value, TRUE)
      [] n.k = "ChanType" -> "chan " \o getType(n.Value, TRUE)
      [] n.k = "InterfaceType" -> "interface{}"
      [] OTHER -> ""

\* ------------------------------------------------------------- tagParser
\* faulty variant: the parser is a package-level value shared by every Parse call
NewTagParserShared == [tags |-> p.tags, types |-> p.types]

\* Parse, lines 35-39: a fresh parser, no tags, no known types
NewTagParser == [tags |-> <<>>, types |-> <<>>]

\* a top-level declaration as parser.ParseFile returns it; Pos and End are lines
IsFuncDecl(d) == d.kind = "FuncDecl"

createTag(file, name, start, end, tagType) ==
    [Name |-> name, File |-> file.Name, Start |-> Itoa(start), End |-> Itoa(end),
     Type |-> tagType]

RECURSIVE FirstKnown(_, _)
\* the loop over p.types: the first known type equal to t
FirstKnown(types, t) ==
    IF Len(types) = 0 THEN [name |-> "", ok |-> FALSE]
    ELSE IF t = types[1] THEN [name |-> types[1], ok |-> TRUE]
    ELSE FirstKnown(Tail(types), t)

\* faulty variant: the check on the number of names of the first result is missing
belongsToReceiverAnyNames(q, types) ==
    IF types.isNil \/ NumFields(types) = 0 THEN [name |-> "", ok |-> FALSE]
    ELSE FirstKnown(q.types, getType(types.List[1].Type, FALSE))

belongsToReceiver(q, types) ==
    IF types.isNil \/ NumFields(types) = 0 THEN [name |-> "", ok |-> FALSE]
    ELSE IF Len(types.List[1].Names) > 1 THEN [name |-> "", ok |-> FALSE]
    ELSE FirstKnown(q.types, getType(types.List[1].Type, FALSE))

\* faulty variant: only a receiver with a name makes a method
HasNamedReceiver(d) ==
    ~d.Recv.isNil /\ Len(d.Recv.List) > 0 /\ Len(d.Recv.List[1].Names) > 0

\* parseFunc's test for a receiver: f.Recv != nil && len(f.Recv.List) > 0
HasReceiver(d) == ~d.Recv.isNil /\ Len(d.Recv.List) > 0

NoCall == [called |-> FALSE, name |-> "", ok |-> FALSE]

\* faulty variant: a function that belongs to a receiver is tagged as a method
parseFuncOwnedIsMethod(q, file, d) ==
    LET tag == createTag(file, d.Name, d.Pos, d.End, Function)
        infer == IF HasReceiver(d) THEN NoCall
                 ELSE [called |-> TRUE] @@ belongsToReceiver(q, d.Results)
        typed == IF HasReceiver(d) \/ infer.ok THEN [tag EXCEPT !.Type = Method] ELSE tag
    IN [q |-> [q EXCEPT !.tags = Append(@, typed)], infer |-> infer, log |-> <<>>]

\* parseFunc of src/main.go: the parser with the tag appended (q), and the result
\* of the belongsToReceiver call it made, if it made one (infer)
parseFunc(q, file, d) ==
    LET tag == createTag(file, d.Name, d.Pos, d.End, Function)
        infer == IF HasReceiver(d) THEN NoCall
                 ELSE [called |-> TRUE] @@ belongsToReceiver(q, d.Results)
        typed == IF HasReceiver(d) THEN [tag EXCEPT !.Type = Method]
                 ELSE IF infer.ok THEN [tag EXCEPT !.Type = Function]
                 ELSE tag
    IN [q |-> [q EXCEPT !.tags = Append(@, typed)], infer |-> infer, log |-> <<>>]

RECURSIVE RecvNameLines(_)
RecvNameLines(names) ==
    IF Len(names) = 0 THEN <<>>
    ELSE <<"recv:  " \o names[1], "recv:  " \o names[1]>> \o RecvNameLines(Tail(names))

RECURSIVE RecvLogLines(_)
\* what part_000's parseFunc logs for the receiver list: the type (an *ast.Ident
\* prints its name, any other node an address), then each name twice
RecvLogLines(list) ==
    IF Len(list) = 0 THEN <<>>
    ELSE <<"type: " \o (IF list[1].Type.k = "Ident" THEN list[1].Type.Name ELSE "&{...}")>>
         \o RecvNameLines(list[1].Names) \o RecvLogLines(Tail(list))

\* parseFunc of src/unnamed/part_000: it logs the receiver and infers nothing
parseFuncLogging(q, file, d) ==
    LET tag == createTag(file, d.Name, d.Pos, d.End, Function)
        typed == IF HasReceiver(d) THEN [tag EXCEPT !.Type = Method] ELSE tag
    IN [q |-> [q EXCEPT !.tags = Append(@, typed)], infer |-> NoCall,
        log |-> IF HasReceiver(d) THEN RecvLogLines(d.Recv.List) ELSE <<>>]

RECURSIVE TypeNames(_)
\* the names the type declarations among decls introduce, in order
TypeNames(decls) ==
    IF Len(decls) = 0 THEN <<>>
    ELSE (IF decls[1].kind = "GenDecl" THEN <<decls[1].Name>> ELSE <<>>)
         \o TypeNames(Tail(decls))

\* faulty variant: the type assertion is dropped, every declaration is handled as a function
declStepAll(q, file, jj) ==
    IF variant = "main.go" THEN parseFunc(q, file, file.Decls[jj])
    ELSE parseFuncLogging(q, file, file.Decls[jj])

\* faulty variant: the known types are collected from the whole file before its functions
\* are resolved
declStepPrescan(q, file, jj) ==
    LET d == file.Decls[jj]
        known == [q EXCEPT !.types = TypeNames(file.Decls)]
    IN IF IsFuncDecl(d)
       THEN IF variant = "main.go" THEN parseFunc(known, file, d)
            ELSE parseFuncLogging(known, file, d)
       ELSE [q |-> known, infer |-> NoCall, log |-> <<>>]

\* one iteration of parseDeclarations' loop, on f.Decls[jj]
declStep(q, file, jj) ==
    LET d == file.Decls[jj]
    IN IF IsFuncDecl(d)
       THEN IF variant = "main.go" THEN parseFunc(q, file, d) ELSE parseFuncLogging(q, file, d)
       ELSE [q |-> q, infer |-> NoCall, log |-> <<>>]

\* ---------------------------------------------------------------- sources
\* a source file is a syntax error, or its top-level declarations in order, each
\* with the number of lines it spans
SyntaxError == [syntaxError |-> TRUE, decls |-> <<>>]
Source(decls) == [syntaxError |-> FALSE, decls |-> decls]

SrcDecl(kind, name, recv, results, nlines) ==
    [kind |-> kind, Name |-> name, Recv |-> recv, Results |-> results, nlines |-> nlines]

\* type Widget struct{} (the only kind of *ast.GenDecl among the inputs)
SrcTypeWidget == SrcDecl("GenDecl", "Widget", NilFieldList, NilFieldList, 1)
\* func NewWidget() *Widget { ... }
SrcNewWidget ==
    SrcDecl("FuncDecl", "NewWidget", NilFieldList,
            FieldList(<<Field(<<>>, StarExpr(Ident("Widget")))>>), 3)
\* func (w *Widget) Name() string { ... }
SrcName ==
    SrcDecl("FuncDecl", "Name", FieldList(<<Field(<<"w">>, StarExpr(Ident("Widget")))>>),
            FieldList(<<Field(<<>>, Ident("string"))>>), 3)
\* func main() {}
SrcMain == SrcDecl("FuncDecl", "main", NilFieldList, NilFieldList, 1)

DeclPool == {SrcTypeWidget, SrcNewWidget, SrcName, SrcMain}

SeqsUpTo(S, n) == UNION {[1..k -> S] : k \in 0..n}

RECURSIVE LayOut(_, _)
\* the parser's positions: declarations follow one another from line `line`
LayOut(decls, line) ==
    IF Len(decls) = 0 THEN <<>>
    ELSE LET d == decls[1]
         IN <<[kind |-> d.kind, Name |-> d.Name, Recv |-> d.Recv, Results |-> d.Results,
               Pos |-> line, End |-> line + d.nlines - 1]>>
            \o LayOut(Tail(decls), line + d.nlines)

\* parser.ParseFile on a source that parses: the package clause is line 1
ParseFile(src, filename) == [Name |-> filename, Decls |-> LayOut(src.decls, 2)]

NoFile == [Name |-> "", Decls |-> <<>>]
\* no Parse call has run yet
NoParser == [tags |-> <<>>, types |-> <<>>]

RECURSIVE DeclsRead(_)
\* the declarations read so far in this run
DeclsRead(d) == IF Len(d) = 0 THEN 0 ELSE Len(d[1].decls) + DeclsRead(Tail(d))

FileName(n) == "f" \o Itoa(n) \o ".go"

\* ------------------------------------------------------------------- main
IdleFmt ==
    /\ node = Ident("") /\ fields = NilFieldList
    /\ res = [keep |-> "", strip |-> "", named |-> "", unnamed |-> ""]

Init ==
    /\ variant \in {"main.go", "part_000"}
    /\ pc = "flags"
    /\ args = <<>>
    /\ i = 0
    /\ disk = <<>>
    /\ f = NoFile
    /\ j = 0
    /\ p = NoParser
    /\ last = NoCall
    /\ log = <<>>
    /\ tags = <<>>
    /\ out = <<>>
    /\ IdleFmt

\* flags.Parse returned flag.ErrHelp: main returns
FlagsHelp ==
    /\ pc = "flags"
    /\ pc' = "done"
    /\ UNCHANGED <<variant, args, i, disk, f, j, p, last, log, tags, out>>
    /\ UNCHANGED fmtVars

\* flags.Parse returned anything else: main goes on with flags.Args()
FlagsParsed ==
    /\ pc = "flags"
    /\ \E n \in 0..MaxFiles : args' = [x \in 1..n |-> FileName(x)]
    /\ tags' = <<>>
    /\ i' = 1
    /\ pc' = "range"
    /\ UNCHANGED <<variant, disk, f, j, p, last, log, out>>
    /\ UNCHANGED fmtVars

\* faulty variant: main returns on the first file that fails to parse
ParseFailsReturns ==
    /\ pc = "range" /\ i <= Len(args)
    /\ disk' = Append(disk, SyntaxError)
    /\ p' = NewTagParser
    /\ pc' = "done"
    /\ UNCHANGED <<variant, i, args, f, j, last, log, tags, out>>
    /\ UNCHANGED fmtVars

\* Parse(file) returns (nil, err): main continues with the next file
ParseFails ==
    /\ pc = "range" /\ i <= Len(args)
    /\ disk' = Append(disk, SyntaxError)
    /\ p' = NewTagParser
    /\ i' = i + 1
    /\ UNCHANGED <<variant, pc, args, f, j, last, log, tags, out>>
    /\ UNCHANGED fmtVars

\* Parse(file): the file parses, parseDeclarations starts
ParseStarts ==
    /\ pc = "range" /\ i <= Len(args)
    /\ \E decls \in SeqsUpTo(DeclPool, MaxDecls - DeclsRead(disk)) :
          /\ disk' = Append(disk, Source(decls))
          /\ f' = ParseFile(Source(decls), args[i])
    /\ p' = NewTagParser
    /\ j' = 1
    /\ pc' = "decls"
    /\ UNCHANGED <<variant, args, i, last, log, tags, out>>
    /\ UNCHANGED fmtVars

\* one declaration of f.Decls
ParseDecl ==
    /\ pc = "decls" /\ j <= Len(f.Decls)
    /\ LET step == declStep(p, f, j)
       IN /\ p' = step.q
          /\ last' = step.infer
          /\ log' = log \o step.log
    /\ j' = j + 1
    /\ UNCHANGED <<variant, pc, args, i, disk, f, tags, out>>
    /\ UNCHANGED fmtVars

\* Parse returns p.tags, main appends them
ParseReturns ==
    /\ pc = "decls" /\ j > Len(f.Decls)
    /\ tags' = tags \o p.tags
    /\ i' = i + 1
    /\ pc' = "range"
    /\ UNCHANGED <<variant, args, disk, f, j, p, last, log, out>>
    /\ UNCHANGED fmtVars

\* the range over the files is over
RangeEnds ==
    /\ pc = "range" /\ i > Len(args)
    /\ pc' = "print"
    /\ UNCHANGED <<variant, args, i, disk, f, j, p, last, log, tags, out>>
    /\ UNCHANGED fmtVars

\* the loop printing every tag
PrintTags ==
    /\ pc = "print"
    /\ out' = tags
    /\ pc' = "done"
    /\ UNCHANGED <<variant, args, i, disk, f, j, p, last, log, tags>>
    /\ UNCHANGED fmtVars

Next ==
    \/ FlagsHelp
    \/ FlagsParsed
    \/ ParseFails
    \/ ParseStarts
    \/ ParseDecl
    \/ ParseReturns
    \/ RangeEnds
    \/ PrintTags

Spec == Init /\ [][Next]_vars

\* main is sequential code: it keeps running until it returns
FairSpec == Spec /\ WF_vars(Next)

\* ------------------------------------------- parseFunc on any parser state
\* parameter and result names
NameAt(x) == SubSeq("abcdefghijklmnop", x, x)
Names(k) == [x \in 1..k |-> NameAt(x)]

Widget == Ident("Widget")

RecvLists ==
    {NilFieldList, FieldList(<<>>)}
    \cup {FieldList(<<Field(Names(k), t)>>) : k \in 0..MaxNames, t \in {Widget, StarExpr(Widget)}}

ResultTypes == {Widget, StarExpr(Widget), Ident("int"), ArrayType(NoLen, StarExpr(Widget))}

\* a second result group: none, or an error (named when the first group is)
SecondGroups(k) == {<<>>, <<Field(IF k = 0 THEN <<>> ELSE <<"err">>, Ident("error"))>>}

ResultLists ==
    {NilFieldList, FieldList(<<>>)}
    \cup {FieldList(<<Field(Names(k), t)>> \o rest) :
            <<k, t, rest>> \in {<<k, t, rest>> \in (0..MaxNames) \X ResultTypes
                                    \X (SecondGroups(0) \cup SecondGroups(1)) :
                                  rest \in SecondGroups(k)}}

FuncDecls == {SrcDecl("FuncDecl", "F", recv, results, 1) : recv \in RecvLists, results \in ResultLists}

Registries == {<<>>, <<"Widget">>, <<"int">>, <<"int", "Widget">>, <<"Widget", "int">>}

\* parseFunc about to run on one function declaration, for any known types
InitParseFunc ==
    /\ variant \in {"main.go", "part_000"}
    /\ pc = "decls"
    /\ args = <<FileName(1)>>
    /\ i = 1
    /\ \E d \in FuncDecls :
          /\ disk = <<Source(<<d>>)>>
          /\ f = ParseFile(Source(<<d>>), FileName(1))
    /\ j = 1
    /\ \E known \in Registries : p = [tags |-> <<>>, types |-> known]
    /\ last = NoCall
    /\ log = <<>>
    /\ tags = <<>>
    /\ out = <<>>
    /\ IdleFmt

SpecParseFunc == InitParseFunc /\ [][ParseDecl]_vars

\* ------------------------------------------------------ TypeFormatter runs
RECURSIVE Depth(_)
RECURSIVE DepthOfList(_)
DepthOfList(list) ==
    IF Len(list) = 0 THEN 0
    ELSE LET a == Depth(list[1].Type)
             b == DepthOfList(Tail(list))
         IN IF a > b THEN a ELSE b

Depth(n) ==
    CASE n.k = "StarExpr" -> 1 + Depth(n.X)
      [] n.k = "ArrayType" -> 1 + Depth(n.Elt)
      [] n.k = "ChanType" -> 1 + Depth(n.Value)
      [] n.k = "MapType" ->
            1 + (IF Depth(n.Key) > Depth(n.Value) THEN Depth(n.Key) ELSE Depth(n.Value))
      [] n.k = "FuncType" ->
            1 + (IF DepthOfList(n.Params.List) > DepthOfList(n.Results.List)
                 THEN DepthOfList(n.Params.List) ELSE DepthOfList(n.Results.List))
      [] OTHER -> 0

BaseTypes == {Ident("int"), Widget, SelectorExpr(Ident("pkg"), Ident("Type")), InterfaceType}

\* what the formatter returns for the inputs
Format(n, fl) ==
    [keep |-> getType(n, TRUE), strip |-> getType(n, FALSE),
     named |-> getTypes(fl, TRUE), unnamed |-> getTypes(fl, FALSE)]

IdleMain ==
    /\ variant = "main.go" /\ pc = "fmt" /\ args = <<>> /\ i = 0 /\ disk = <<>>
    /\ f = NoFile /\ j = 0 /\ p = NoParser /\ last = NoCall /\ log = <<>>
    /\ tags = <<>> /\ out = <<>>

InitFmt ==
    /\ IdleMain
    /\ node \in BaseTypes
    /\ fields = NilFieldList
    /\ res = Format(node, fields)

Formatted == res' = Format(node', fields') /\ UNCHANGED mainVars

\* a composite type is built around the current one while no field list is open
CanWrap == pc = "fmt" /\ fields.isNil /\ Depth(node) < MaxDepth

WrapStar ==
    /\ CanWrap
    /\ node' = StarExpr(node)
    /\ UNCHANGED fields
    /\ Formatted

WrapArray ==
    /\ CanWrap
    /\ \E len \in {NoLen, BasicLit("4")} : node' = ArrayType(len, node)
    /\ UNCHANGED fields
    /\ Formatted

WrapMap ==
    /\ CanWrap
    /\ node' \in {MapType(node, StarExpr(Widget)), MapType(Ident("string"), node)}
    /\ UNCHANGED fields
    /\ Formatted

WrapChan ==
    /\ CanWrap
    /\ node' = ChanType(node)
    /\ UNCHANGED fields
    /\ Formatted

\* func(T) and func(a, b int) T around the current type T
WrapFunc ==
    /\ CanWrap
    /\ node' \in {FuncType(FieldList(<<Field(<<>>, node)>>), NilFieldList),
                  FuncType(FieldList(<<Field(<<"a", "b">>, Ident("int"))>>),
                           FieldList(<<Field(<<>>, node)>>))}
    /\ UNCHANGED fields
    /\ Formatted

\* the open field list has been made a function type
Closed == node.k = "FuncType" /\ (node.Params = fields \/ node.Results = fields)

\* one more field group of the current type, with k names
AddField ==
    /\ pc = "fmt" /\ ~Closed
    /\ Depth(node) + 2 <= MaxDepth /\ Len(fields.List) < MaxFields
    /\ \E k \in 0..MaxNames : fields' = FieldList(Append(fields.List, Field(Names(k), node)))
    /\ UNCHANGED node
    /\ Formatted

\* the function type with the open field list as its parameters, or as its results
MakeFunc ==
    /\ pc = "fmt" /\ ~fields.isNil /\ ~Closed
    /\ node' \in {FuncType(fields, NilFieldList),
                  FuncType(FieldList(<<Field(<<"a", "b">>, Ident("int"))>>), fields)}
    /\ UNCHANGED fields
    /\ Formatted

NextFmt ==
    \/ WrapStar
    \/ WrapArray
    \/ WrapMap
    \/ WrapChan
    \/ WrapFunc
    \/ AddField
    \/ MakeFunc

SpecFmt == InitFmt /\ [][NextFmt]_vars

\* ================================================================ claims
\* the declaration has a receiver list with at least one field group
ReceiverPresent(d) == ~d.Recv.isNil /\ Len(d.Recv.List) >= 1

\* the source of the file being scanned, and the declaration parseFunc or the
\* loop of parseDeclarations handled last
CurDecls == disk[Len(disk)].decls
Scanning == pc = "decls" /\ j > 1
LastDecl == CurDecls[j - 1]

RECURSIVE FuncNames(_)
\* the names of the function and method declarations among decls, in order
FuncNames(decls) ==
    IF Len(decls) = 0 THEN <<>>
    ELSE (IF decls[1].kind = "FuncDecl" THEN <<decls[1].Name>> ELSE <<>>)
         \o FuncNames(Tail(decls))

TagNames(ts) == [x \in 1..Len(ts) |-> ts[x].Name]

IsPrefix(s, t) == Len(s) <= Len(t) /\ SubSeq(t, 1, Len(s)) = s

RECURSIVE ScanFrom(_, _, _)
\* parseDeclarations from declaration jj on, by a parser in state q
ScanFrom(q, file, jj) ==
    IF jj > Len(file.Decls) THEN q ELSE ScanFrom(declStep(q, file, jj).q, file, jj + 1)

\* the tags of a file scanned alone by a fresh parser; none when it does not parse
AloneTags(src, name) ==
    IF src.syntaxError THEN <<>>
    ELSE ScanFrom([tags |-> <<>>, types |-> <<>>], ParseFile(src, name), 1).tags

RECURSIVE ConcatParsed(_, _, _)
\* the tags of files 1..n, each scanned alone, in file order
ConcatParsed(d, names, n) ==
    IF n = 0 THEN <<>> ELSE ConcatParsed(d, names, n - 1) \o AloneTags(d[n], names[n])

\* a receiver-less function whose first result group is one unnamed T or *T
SoleResultOf(d, t) ==
    /\ d.kind = "FuncDecl" /\ ~ReceiverPresent(d)
    /\ ~d.Results.isNil /\ Len(d.Results.List) >= 1
    /\ d.Results.List[1].Names = <<>>
    /\ d.Results.List[1].Type \in {Ident(t), StarExpr(Ident(t))}

DeclaredBefore(t, n) == \E x \in 1..(n - 1) : CurDecls[x].kind = "GenDecl" /\ CurDecls[x].Name = t

TypeUniverse == {"Widget", "string", "int"}

\* C1: Parse returns exactly one tag per function/method declaration, carrying
\* the declarations' names in source order; no tag is dropped, duplicated,
\* reordered or made for another kind of declaration. Stated on every prefix of
\* the scan, so on the returned list too.
C1_OneTagPerFuncInOrder ==
    pc = "decls" => TagNames(p.tags) = FuncNames(SubSeq(CurDecls, 1, j - 1))

\* a finished scan of function, type, function with different names
C1_Witness ==
    /\ pc = "decls" /\ j > Len(f.Decls) /\ Len(CurDecls) = 3
    /\ CurDecls[1].kind = "FuncDecl" /\ CurDecls[2].kind = "GenDecl"
    /\ CurDecls[3].kind = "FuncDecl" /\ CurDecls[1].Name # CurDecls[3].Name
    /\ Len(p.tags) = 2

\* C3 (as claimed): after a type declaration of T earlier in the file, a
\* receiver-less function whose sole unnamed result is T or *T is resolved to
\* the owning type T: belongsToReceiver returns (T, true).
C3_ConstructorResolved ==
    \A t \in TypeUniverse :
        (Scanning /\ variant = "main.go" /\ SoleResultOf(LastDecl, t)
            /\ DeclaredBefore(t, j - 1))
        => last = [called |-> TRUE, name |-> t, ok |-> TRUE]

\* C5: a file that fails to parse adds no tag and does not stop the run: every
\* file is attempted, the aggregated tags are the tags of the files that parsed,
\* in file order, and a run that got its file list reaches the output stage.
C5_FailingFilesSkipped ==
    /\ [](pc \in {"range", "print", "done"} =>
            /\ tags = ConcatParsed(disk, args, Len(disk))
            /\ (pc \in {"print", "done"} => Len(disk) = Len(args)))
    /\ ((pc = "range") ~> (pc = "print"))

\* the output stage is reached after a file that failed and a file that gave tags
C5_Witness ==
    /\ pc = "print" /\ Len(disk) = 2
    /\ disk[1].syntaxError /\ ~disk[2].syntaxError /\ Len(tags) >= 2

\* C8: every Parse call starts with no tags and no known types, no name leaves
\* the known types during a scan, and what Parse returns for a file (and what
\* main appends) is what scanning that file alone gives.
C8_RegistryPerFile ==
    [][/\ (pc = "range" /\ pc' = "decls") => p' = [tags |-> <<>>, types |-> <<>>]
       /\ (pc = "decls" /\ pc' = "decls") =>
             /\ IsPrefix(p.types, p'.types)
             /\ p' = ScanFrom([tags |-> <<>>, types |-> <<>>],
                              [f EXCEPT !.Decls = SubSeq(f.Decls, 1, j)], 1)
       /\ (pc = "decls" /\ pc' = "range") =>
             /\ p.tags = AloneTags(disk[i], args[i])
             /\ tags' = tags \o AloneTags(disk[i], args[i])]_vars

\* the second file's scan is over, after a first file that gave tags
C8_Witness ==
    /\ pc = "decls" /\ i = 2 /\ j > Len(f.Decls)
    /\ Len(tags) >= 1 /\ Len(p.tags) >= 1

\* C9: the known types at a declaration come only from type declarations that
\* precede it, and a receiver-less function whose sole unnamed result is T or *T
\* with no type declaration of T before it gets no owning type.
C9_SinglePass ==
    pc = "decls" =>
        /\ \A x \in 1..Len(p.types) :
              \E y \in 1..(j - 1) : CurDecls[y].kind = "GenDecl" /\ CurDecls[y].Name = p.types[x]
        /\ \A t \in TypeUniverse :
              (j > 1 /\ variant = "main.go" /\ SoleResultOf(LastDecl, t)
                  /\ ~DeclaredBefore(t, j - 1))
              => last = [called |-> TRUE, name |-> "", ok |-> FALSE]

\* the constructor was resolved while the declaration of its type was still ahead
C9_Witness ==
    /\ Scanning /\ variant = "main.go" /\ j <= Len(CurDecls)
    /\ SoleResultOf(LastDecl, "Widget")
    /\ CurDecls[j].kind = "GenDecl" /\ CurDecls[j].Name = "Widget"
    /\ last.called /\ ~last.ok

\* ---- parseFunc on one declaration (SpecParseFunc): the declaration, its tag
TheDecl == disk[1].decls[1]
Parsed == pc = "decls" /\ j = 2
TheTag == p.tags[1]

C4_MultiNamedNeverInferred ==
    (/\ Parsed /\ variant = "main.go" /\ ~ReceiverPresent(TheDecl)
     /\ ~TheDecl.Results.isNil /\ Len(TheDecl.Results.List) >= 1
     /\ Len(TheDecl.Results.List[1].Names) >= 2)
    => last = [called |-> TRUE, name |-> "", ok |-> FALSE]

\* func F() (a, b Widget) was resolved with Widget among the known types
C4_Witness ==
    /\ Parsed /\ variant = "main.go" /\ ~ReceiverPresent(TheDecl)
    /\ ~TheDecl.Results.isNil /\ Len(TheDecl.Results.List) >= 1
    /\ TheDecl.Results.List[1] = Field(<<"a", "b">>, Widget)
    /\ \E x \in 1..Len(p.types) : p.types[x] = "Widget"
    /\ last.called /\ ~last.ok

\* C10: parseFunc appends exactly one tag, of kind Method exactly when the
\* receiver list is present with at least one field group (named or not), and of
\* kind Function otherwise, whatever receiver inference answered.
C10_KindFromReceiverOnly ==
    Parsed =>
        /\ Len(p.tags) = 1
        /\ (TheTag.Type = Method) <=> ReceiverPresent(TheDecl)
        /\ TheTag.Type \in {Method, Function}

\* a receiver-less function that inference gave an owning type is a Function
C10_Witness ==
    /\ Parsed /\ variant = "main.go" /\ ~ReceiverPresent(TheDecl)
    /\ last.called /\ last.ok /\ last.name = "Widget"
    /\ TheTag.Type = Function

\* ---- TypeFormatter (SpecFmt)
\* C6 (as claimed): the element, key, value, parameter and result types of a
\* composite type keep their pointer markers whatever the flag, so that a
\* composite type formats to the same string under both flag values.
C6_NestedMarkersKept ==
    (pc = "fmt" /\ node.k \in {"ArrayType", "MapType", "ChanType", "FuncType"})
    => res.strip = res.keep

RECURSIVE TypeTokens(_)
\* one type per declared name, one per anonymous field
TypeTokens(list) ==
    IF Len(list) = 0 THEN <<>>
    ELSE LET n == IF Len(list[1].Names) = 0 THEN 1 ELSE Len(list[1].Names)
         IN [x \in 1..n |-> getType(list[1].Type, TRUE)] \o TypeTokens(Tail(list))

RECURSIVE NamedGroups(_)
\* the names of a group, one space, its type; the type alone when anonymous
NamedGroups(list) ==
    IF Len(list) = 0 THEN <<>>
    ELSE <<IF Len(list[1].Names) = 0 THEN getType(list[1].Type, TRUE)
           ELSE Join(list[1].Names, ", ") \o " " \o getType(list[1].Type, TRUE)>>
         \o NamedGroups(Tail(list))

\* C7: without names a field list renders as one type per declared name and one
\* per anonymous field, joined by ", "; with names each named group renders as
\* its names, a space and the type once. func(a, b int) int is rendered so, and
\* a function type gets " " and its results only when it has results.
C7_FieldListRendering ==
    pc = "fmt" =>
        /\ res.unnamed = Join(TypeTokens(fields.List), ", ")
        /\ res.named = Join(NamedGroups(fields.List), ", ")
        /\ node = FuncType(FieldList(<<Field(<<"a", "b">>, Ident("int"))>>),
                           FieldList(<<Field(<<>>, Ident("int"))>>))
              => res.keep = "func(a, b int) int"
        /\ node.k = "FuncType" =>
              res.keep = "func(" \o Join(NamedGroups(node.Params.List), ", ") \o ")"
                         \o (IF Len(node.Results.List) > 0
                             THEN " " \o Join(TypeTokens(node.Results.List), ", ")
                             ELSE "")

\* func(a, b int) (T, T, T) from a result list of an anonymous and a two-name group
C7_Witness ==
    /\ pc = "fmt" /\ Closed /\ node.Results = fields
    /\ Len(fields.List) = 2
    /\ Len(fields.List[1].Names) = 0 /\ Len(fields.List[2].Names) = 2

====
